---- MODULE Spec2Model ----
(***************************************************************************)
(* State-machine model of the transcript ingestion / session aggregation   *)
(* backend (src/main.py) of the sales-call assistant.                      *)
(*                                                                         *)
(* Conventions                                                             *)
(*  - A Python str is a sequence of tokens (TLA+ strings); message texts   *)
(*    use one token per character, fixed phrases are one token.            *)
(*  - A Python / JSON value of unknown type is a tagged record             *)
(*    [t |-> "str"|"num"|"null"|"missing"|"list"|"obj", ...].              *)
(*  - A float in [0,1] is an integer number of hundredths (0.5 is 50).     *)
(*  - Wall-clock fields (received_at, timestamp) are written by the        *)
(*    handlers and never read back by them; they are left out of records.  *)
(*  - Every request handler is `async def` without any await: on the       *)
(*    single event loop each handler runs to completion, one action each.  *)
(***************************************************************************)
EXTENDS Integers, Sequences, FiniteSets, Bags, TLC

VARIABLES
    STORE,                \* room_id -> list of message records (Live Buffer)
    STORE_USERS,          \* room_id -> user_email (owner recorded at ingestion)
    ROOM_TO_USER,         \* room_id -> user_email (mapping made by get_token)
    ANALYSIS_STORE,       \* room_id -> latest per-utterance analysis dict
    messages_collection,  \* Mongo "messages": a bag of message records
    sessions_collection,  \* Mongo "transcripts": a set of session documents
    response,             \* the last request and the answer it got
    created,              \* number of message records built so far (capped)
    firstOwner,           \* history: room_id -> first user associated with it
    accepted,             \* history: room_id -> records of the ingestions answered 200
    rejected,             \* history: rooms with a non-blank ingestion answered by an error
    finalized,            \* history: room_id -> what its first finalization returned
    peer                  \* a second server process on the same database

vars == <<STORE, STORE_USERS, ROOM_TO_USER, ANALYSIS_STORE, messages_collection,
          sessions_collection, response, created, firstOwner, accepted, rejected,
          finalized, peer>>

memory == <<STORE, STORE_USERS, ROOM_TO_USER, ANALYSIS_STORE>>
database == <<messages_collection, sessions_collection>>
history == <<firstOwner, accepted, rejected, finalized>>

----------------------------------------------------------------------------
(* Bounds and input domains *)

MaxMsgs == 3

Rooms == {"r1", "r2"}
Emails == {"u1", "u2"}
NoEmail == "None"
Speakers == {"user", "assistant"}
Timestamps == {1, 2}
Whitespace == {" ", "<nl>"}
Texts == { <<>>, <<" ">>, <<" ", "a", "<nl>">> }

----------------------------------------------------------------------------
(* Python helpers *)

Min(a, b) == IF a < b THEN a ELSE b
Max(a, b) == IF a > b THEN a ELSE b

\* dict.get(key) / `key in dict` on a TLA+ function whose domain is the key set
Has(d, k) == k \in DOMAIN d
Put(d, k, v) == [x \in DOMAIN d \cup {k} |-> IF x = k THEN v ELSE d[x]]
EmptyDict == [x \in {} |-> 0]

\* str.strip(chars)
RECURSIVE LStripSet(_, _)
LStripSet(s, cs) == IF s # <<>> /\ Head(s) \in cs THEN LStripSet(Tail(s), cs) ELSE s

RECURSIVE RStripSet(_, _)
RStripSet(s, cs) ==
    IF s # <<>> /\ s[Len(s)] \in cs THEN RStripSet(SubSeq(s, 1, Len(s) - 1), cs) ELSE s

StripSet(s, cs) == RStripSet(LStripSet(s, cs), cs)

\* str.strip()
Strip(s) == StripSet(s, Whitespace)

\* s[:n]
Take(s, n) == SubSeq(s, 1, Min(n, Len(s)))

\* s[-n:] for n >= 1
LastN(s, n) == SubSeq(s, Max(1, Len(s) - n + 1), Len(s))

\* tagged values
Str(s) == [t |-> "str", s |-> s]
Num(n) == [t |-> "num", n |-> n]
List(l) == [t |-> "list", l |-> l]
Null == [t |-> "null"]
Missing == [t |-> "missing"]

----------------------------------------------------------------------------
(* Analysis engine: the LLM's answer and its post-processing *)

\* str.lower(), token by token
LowerTok(tok) ==
    CASE tok = "Positive" -> "positive"
      [] tok = "NEGATIVE" -> "negative"
      [] tok = "JSON" -> "json"
      [] OTHER -> tok

Lower(s) == [i \in DOMAIN s |-> LowerTok(s[i])]

\* A JSON object with the six keys the prompts ask for; a key may be missing.
Obj(s, c, k, i, cc, r) ==
    [t |-> "obj",
     f |-> [sentiment |-> s, confidence |-> c, key_points |-> k,
            customer_interests |-> i, customer_concerns |-> cc,
            recommendation_to_salesperson |-> r]]

\* float("nan"), and the NaN json.loads reads by default: a float that is neither
\* above nor below any other.  Here the number -1, which stands for no other
\* float of the model.
NaN == 0 - 1

\* The JSON texts the model's LLM can answer with, by token, and what
\* json.loads makes of each.
JsonDocs ==
    [J_good |-> Obj(Str(<<"Positive">>), Num(90), List(<<Str(<<"p1">>)>>),
                    Missing, Missing, Str(<<"advice">>)),
     J_odd |-> Obj(Str(<<"mixed">>), Str(<<"0.7">>), Missing, Missing, Missing, Missing),
     J_badkp |-> Obj(Str(<<"NEGATIVE">>), Num(40), Null, Missing, Missing,
                     Str(<<"advice">>)),
     J_numsent |-> Obj(Num(1), Num(90), List(<<>>), Missing, Missing, Str(<<"advice">>)),
     J_badconf |-> Obj(Str(<<"neutral">>), Str(<<"high">>), List(<<>>), Missing, Missing,
                       Str(<<"advice">>)),
     J_array |-> List(<<>>),
     J_full |-> Obj(Str(<<"Positive">>), Num(30),
                    List(<<Str(<<"k1">>), Str(<<"k2">>), Str(<<"k3">>), Str(<<"k4">>)>>),
                    List(<<Str(<<"i1">>), Str(<<"i2">>)>>),
                    List(<<Str(<<"c1">>), Str(<<"c2">>)>>),
                    Str(<<"advice">>)),
     J_nokp |-> Obj(Str(<<"neutral">>), Missing, List(<<>>), Missing, Missing, Missing),
     J_nullkp |-> Obj(Str(<<"neutral">>), Num(80), Null, Missing, Missing, Missing),
     J_nan |-> Obj(Str(<<"neutral">>), Num(NaN), List(<<Str(<<"k1">>)>>), Missing, Missing,
                   Missing),
     J_strconf |-> Obj(Str(<<"Negative">>), Str(<<"nan">>), Missing,
                       List(<<Str(<<"i1">>)>>), Missing, Missing)]

\* json.loads(raw): ok, or JSONDecodeError
JsonLoads(raw) ==
    IF Len(raw) = 1 /\ raw[1] \in DOMAIN JsonDocs
    THEN [ok |-> TRUE, v |-> JsonDocs[raw[1]]]
    ELSE [ok |-> FALSE]

\* The token for a run of three backticks
Fence == "<fence>"

\* The defensive unwrapping of a Markdown code fence (main.py 341-345, 435-439)
Unfence(raw) ==
    IF raw # <<>> /\ Head(raw) = Fence
    THEN LET a == StripSet(raw, {Fence})
             b == IF a # <<>> /\ LowerTok(Head(a)) = "json" THEN Tail(a) ELSE a
         IN Strip(b)
    ELSE raw

\* parsed.get(key, default) on a parsed JSON object
Get(obj, key, default) == IF obj.f[key].t = "missing" THEN default ELSE obj.f[key]

\* float(x): the strings Python can read as a number, in hundredths
FloatStrings == [x \in {<<"0.7">>, <<"nan">>} |-> IF x = <<"nan">> THEN NaN ELSE 70]

\* max(a, b) on floats: b if b > a else a, and no comparison with NaN is true
PyMax(a, b) == IF a # NaN /\ b # NaN /\ b > a THEN b ELSE a
FloatOk(x) == x.t = "num" \/ (x.t = "str" /\ x.s \in DOMAIN FloatStrings)
Float(x) == IF x.t = "num" THEN x.n ELSE FloatStrings[x.s]

FallbackAnalysis ==
    [sentiment |-> <<"neutral">>, confidence |-> 0, key_points |-> List(<<>>),
     recommendation_to_salesperson |-> Str(<<"Unable to analyze.">>)]

\* analyze_with_groq: reply is [err |-> TRUE] when the API call raises, else
\* [err |-> FALSE, content |-> the message content]
analyze_with_groq(reply) ==
    IF reply.err THEN FallbackAnalysis
    ELSE LET raw == Unfence(Strip(reply.content))
             parsed == JsonLoads(raw)
         IN IF ~parsed.ok THEN FallbackAnalysis
            ELSE IF parsed.v.t # "obj" THEN FallbackAnalysis
            ELSE LET s == Get(parsed.v, "sentiment", Str(<<"neutral">>))
                     c == Get(parsed.v, "confidence", Num(0))
                 IN IF s.t # "str" \/ ~FloatOk(c) THEN FallbackAnalysis
                    ELSE [sentiment |-> Lower(s.s),
                          confidence |-> Float(c),
                          key_points |-> Get(parsed.v, "key_points", List(<<>>)),
                          recommendation_to_salesperson |->
                              Get(parsed.v, "recommendation_to_salesperson",
                                  Str(<<"Continue the conversation normally.">>))]

\* Pydantic's check of SentimentAnalysis(**analysis_dict): sentiment is a str and
\* confidence a float by construction; key_points must be a list of str and the
\* recommendation a str.
IsStrList(x) == x.t = "list" /\ \A i \in DOMAIN x.l : x.l[i].t = "str"
SentimentAnalysisValid(d) ==
    IsStrList(d.key_points) /\ d.recommendation_to_salesperson.t = "str"

----------------------------------------------------------------------------
(* Whole-conversation analysis (main.py 368-494) *)

KeyPointsCap == 7
NoKeyPointTexts == 3
NoKeyPointTextLen == 80
DecodeErrorTexts == 5
DecodeErrorTextLen == 100
ConfidenceFloor == 50
DefaultFullConfidence == 60

\* [m for m in messages if m['speaker'] == 'user']
IsUserMessage(m) == m.speaker = "user"
UserMessages(messages) == SelectSeq(messages, IsUserMessage)

\* str(n) inside an f-string, for the small counts of the model
Digits == <<"0", "1", "2", "3", "4", "5", "6", "7", "8", "9">>
NumStr(n) == IF n < Len(Digits) THEN Digits[n + 1] ELSE "10+"

\* list.extend(x): a list gives its items, a str its characters, anything else
\* the model's JSON can hold (null, a number) raises TypeError
Iterable(x) == x.t \in {"list", "str"}
Items(x) == IF x.t = "list" THEN x.l ELSE [i \in DOMAIN x.s |-> Str(<<x.s[i]>>)]

EmptyConversationAnalysis ==
    [sentiment |-> <<"neutral">>, confidence |-> 50,
     key_points |-> List(<<Str(<<"No conversation data">>)>>),
     recommendation_to_salesperson |-> Str(<<"No messages to analyze.">>)]

\* except json.JSONDecodeError (main.py 472-480)
DecodeErrorAnalysis(messages) ==
    LET um == UserMessages(messages)
    IN [sentiment |-> <<"neutral">>, confidence |-> 50,
        key_points |->
            IF um # <<>>
            THEN List([i \in 1..Min(DecodeErrorTexts, Len(um)) |->
                          Str(Take(um[i].text, DecodeErrorTextLen))])
            ELSE List(<<Str(<<"Customer engaged in conversation">>)>>),
        recommendation_to_salesperson |->
            Str(<<"Review full transcript for context and follow up appropriately.">>)]

\* except Exception (main.py 481-494)
ExceptionAnalysis(messages) ==
    [sentiment |-> <<"neutral">>, confidence |-> 50,
     key_points |->
         List(<<Str(<<"Conversation had ", NumStr(Len(messages)), " total messages">>),
                Str(<<"Customer spoke ", NumStr(Len(UserMessages(messages))), " times">>),
                Str(<<"See transcript for details">>)>>),
     recommendation_to_salesperson |->
         Str(<<"Review the conversation transcript and follow up based on customer's responses.">>)]

\* The key points when the LLM's answer has none (main.py 451-457)
PointsFromMessages(messages) ==
    LET um == UserMessages(messages)
    IN IF um # <<>>
       THEN [i \in 1..Min(NoKeyPointTexts, Len(um)) |->
                Str(<<"Customer message: ">> \o Take(um[i].text, NoKeyPointTextLen))]
       ELSE <<Str(<<"Conversation completed">>)>>

\* The truncation of the prompt to its last 3000 characters changes only what
\* the LLM is asked, and the LLM's answer is an input here.
analyze_full_conversation(messages, reply) ==
    IF messages = <<>> THEN EmptyConversationAnalysis
    ELSE IF reply.err THEN ExceptionAnalysis(messages)
    ELSE LET parsed == JsonLoads(Unfence(Strip(reply.content)))
         IN IF ~parsed.ok THEN DecodeErrorAnalysis(messages)
            ELSE IF parsed.v.t # "obj" THEN ExceptionAnalysis(messages)
            ELSE LET kp == Get(parsed.v, "key_points", List(<<>>))
                     ci == Get(parsed.v, "customer_interests", List(<<>>))
                     cc == Get(parsed.v, "customer_concerns", List(<<>>))
                     s == Get(parsed.v, "sentiment", Str(<<"neutral">>))
                     c == Get(parsed.v, "confidence", Num(DefaultFullConfidence))
                 IN IF ~Iterable(kp) \/ ~Iterable(ci) \/ ~Iterable(cc)
                       \/ s.t # "str" \/ ~FloatOk(c)
                    THEN ExceptionAnalysis(messages)
                    ELSE LET all_key_points == Items(kp) \o Items(ci) \o Items(cc)
                             points == IF all_key_points = <<>>
                                       THEN PointsFromMessages(messages)
                                       ELSE all_key_points
                         IN [sentiment |-> Lower(s.s),
                             confidence |-> PyMax(Float(c), ConfidenceFloor),
                             key_points |-> List(Take(points, KeyPointsCap)),
                             recommendation_to_salesperson |->
                                 Get(parsed.v, "recommendation_to_salesperson",
                                     Str(<<"Follow up based on customer interests expressed in the conversation.">>))]

\* analyze_full_conversation applied to a conversation and an LLM behaviour; the
\* result is left in `response`.
AnalyzeFullConversation(conversations, replies) ==
    \E messages \in conversations, reply \in replies :
        /\ response' = [op |-> "analyze_full_conversation",
                        req |-> [messages |-> messages, reply |-> reply],
                        status |-> 200,
                        body |-> analyze_full_conversation(messages, reply)]
        /\ UNCHANGED <<peer, memory, database, created, history>>

----------------------------------------------------------------------------
(* State after module import (main.py 85-88), with an empty database *)

\* The second process between requests: its own STORE, and the mongo_id its
\* last finalization of each room returned
PeerIdle(store, returned) ==
    [STORE |-> store, returned |-> returned, pc |-> "idle", room_id |-> "none",
     existing_session |-> 0]

NoRequest == [op |-> "none", req |-> [room_id |-> "none"], status |-> 0,
              body |-> [detail |-> "none"]]

Init ==
    /\ STORE = EmptyDict
    /\ STORE_USERS = EmptyDict
    /\ ROOM_TO_USER = EmptyDict
    /\ ANALYSIS_STORE = EmptyDict
    /\ messages_collection = EmptyBag
    /\ sessions_collection = {}
    /\ response = NoRequest
    /\ created = 0
    /\ firstOwner = EmptyDict
    /\ accepted = [r \in Rooms |-> <<>>]
    /\ rejected = {}
    /\ finalized = EmptyDict
    /\ peer = PeerIdle(EmptyDict, EmptyDict)

\* The server process starts again: the module-level dicts are built anew, the
\* database keeps what it holds.
Restart ==
    /\ STORE' = EmptyDict
    /\ STORE_USERS' = EmptyDict
    /\ ROOM_TO_USER' = EmptyDict
    /\ ANALYSIS_STORE' = EmptyDict
    /\ response' = NoRequest
    /\ firstOwner' = EmptyDict
    /\ accepted' = [r \in Rooms |-> <<>>]
    /\ rejected' = {}
    /\ UNCHANGED <<peer, database, created, finalized>>

Reply(op, req, status, body) == [op |-> op, req |-> req, status |-> status, body |-> body]

Detail(text) == [detail |-> text]

\* history: the first user a room is associated with
NoteOwner(room, email) ==
    IF email # NoEmail /\ ~Has(firstOwner, room) THEN Put(firstOwner, room, email)
    ELSE firstOwner

Buffer(room) == IF Has(STORE, room) THEN STORE[room] ELSE <<>>

----------------------------------------------------------------------------
(* POST /get-token (main.py 506-541): only the room-to-user mapping is state *)

\* if request.user_email: ROOM_TO_USER[request.room_name] = request.user_email
MapRoom(mapping, room, email) == IF email # NoEmail THEN Put(mapping, room, email) ELSE mapping

get_token(request) ==
    /\ ROOM_TO_USER' = MapRoom(ROOM_TO_USER, request.room_name, request.user_email)
    /\ response' = Reply("get_token", request, 200, [room |-> request.room_name])
    /\ firstOwner' = NoteOwner(request.room_name, request.user_email)
    /\ UNCHANGED <<peer, STORE, STORE_USERS, ANALYSIS_STORE, database, created, accepted,
                   rejected, finalized>>

GetToken(rooms, emails) ==
    \E room \in rooms, email \in emails :
        get_token([room_name |-> room, user_email |-> email])

----------------------------------------------------------------------------
(* POST /process-transcription (main.py 547-601) *)

\* payload.user_email or ROOM_TO_USER.get(payload.room_id)
EffectiveUser(payload) ==
    IF payload.user_email # NoEmail THEN payload.user_email
    ELSE IF Has(ROOM_TO_USER, payload.room_id) THEN ROOM_TO_USER[payload.room_id]
    ELSE NoEmail

\* if user_email and payload.room_id not in STORE_USERS: STORE_USERS[room] = user_email
RecordOwner(users, room, email) ==
    IF email # NoEmail /\ ~Has(users, room) THEN Put(users, room, email) ELSE users

MakeRecord(payload) ==
    [text |-> Strip(payload.text), speaker |-> payload.speaker,
     sent_ts |-> payload.timestamp, room_id |-> payload.room_id]

\* faulty variant: the record is put in front of the room's list
AppendRecordInFront(store, room, record) ==
    Put(store, room, <<record>> \o (IF Has(store, room) THEN store[room] ELSE <<>>))

\* STORE.setdefault(room_id, []).append(record)
AppendRecord(store, room, record) ==
    Put(store, room, Append(IF Has(store, room) THEN store[room] ELSE <<>>, record))

\* The request body fails TranscriptIn (text: min_length=1): FastAPI answers 422
\* and the handler does not run.
SchemaRejects(payload) == Len(payload.text) < 1

\* text_clean = payload.text.strip(); if not text_clean
IsBlank(payload) == Strip(payload.text) = <<>>

\* faulty variant: the blank check comes after the append
StoreAfterIngestLate(payload) ==
    AppendRecord(STORE, payload.room_id, MakeRecord(payload))

\* The Live Buffer after the handler ran (main.py 558-570)
StoreAfterIngest(payload) ==
    IF IsBlank(payload) THEN STORE
    ELSE AppendRecord(STORE, payload.room_id, MakeRecord(payload))

\* The answer to a request whose text is blank: the HTTPException(422) raised at
\* line 560 is an Exception, so the handler's own `except Exception` (line 599)
\* catches it and raises HTTPException(500) in its place.
BlankReply(payload) ==
    Reply("process_transcription", payload, 500, Detail("422: Empty message"))

\* faulty variant: the analysis is stored whoever spoke
AnalysisAfterIngestAnySpeaker(payload, analysis_dict) ==
    Put(ANALYSIS_STORE, payload.room_id, analysis_dict)

\* if payload.speaker == "user": ANALYSIS_STORE[payload.room_id] = analysis_dict
AnalysisAfterIngest(payload, analysis_dict) ==
    IF payload.speaker = "user" THEN Put(ANALYSIS_STORE, payload.room_id, analysis_dict)
    ELSE ANALYSIS_STORE

\* insert_ok: messages_collection.insert_one succeeds (else PyMongoError, logged);
\* reply: what the LLM call does (read only for a customer turn).
process_transcription(payload, insert_ok, reply) ==
    LET room == payload.room_id
        record == MakeRecord(payload)
        store == StoreAfterIngest(payload)
        is_user == payload.speaker = "user"
        analysis_dict == analyze_with_groq(reply)
        failed == is_user /\ ~SentimentAnalysisValid(analysis_dict)
    IN IF SchemaRejects(payload)
       THEN /\ response' = Reply("process_transcription", payload, 422,
                                 Detail("string_too_short"))
            /\ UNCHANGED <<peer, memory, database, created, history>>
       ELSE /\ STORE_USERS' = RecordOwner(STORE_USERS, room, EffectiveUser(payload))
            /\ firstOwner' = NoteOwner(room, payload.user_email)
            /\ STORE' = store
            /\ UNCHANGED <<peer, ROOM_TO_USER, sessions_collection, finalized>>
            /\ IF IsBlank(payload)
               THEN /\ response' = BlankReply(payload)
                    /\ UNCHANGED <<ANALYSIS_STORE, messages_collection, created,
                                   accepted, rejected>>
               ELSE /\ created < MaxMsgs
                    /\ created' = created + 1
                    /\ messages_collection' =
                           IF insert_ok THEN messages_collection (+) SetToBag({record})
                           ELSE messages_collection
                    /\ ANALYSIS_STORE' = AnalysisAfterIngest(payload, analysis_dict)
                    /\ response' =
                           IF failed
                           THEN Reply("process_transcription", payload, 500,
                                      Detail("validation error for SentimentAnalysis"))
                           ELSE Reply("process_transcription", payload, 200,
                                      [ok |-> TRUE, room_id |-> room,
                                       count_in_room |-> Len(store[room]),
                                       analysis |-> IF is_user THEN analysis_dict ELSE Null,
                                       latest_user_message |->
                                           IF is_user THEN Str(record.text) ELSE Null])
                    /\ accepted' = IF failed THEN accepted
                                   ELSE [accepted EXCEPT ![room] = Append(@, record)]
                    /\ rejected' = IF failed THEN rejected \cup {room} ELSE rejected

\* No LLM call is made for an agent turn
NoReply == [err |-> TRUE]

ProcessTranscription(payloads, inserts, replies) ==
    \E payload \in payloads :
        \E insert_ok \in (IF IsBlank(payload) THEN {TRUE} ELSE inserts) :
            \E reply \in (IF payload.speaker = "user" /\ ~IsBlank(payload)
                          THEN replies ELSE {NoReply}) :
                process_transcription(payload, insert_ok, reply)

----------------------------------------------------------------------------
(* GET /analysis/{room_id} (main.py 606-623) *)

get_latest_analysis(room_id) ==
    /\ response' =
           IF Has(ANALYSIS_STORE, room_id)
           THEN IF SentimentAnalysisValid(ANALYSIS_STORE[room_id])
                THEN Reply("get_latest_analysis", [room_id |-> room_id], 200,
                           [room_id |-> room_id, analysis |-> ANALYSIS_STORE[room_id]])
                ELSE Reply("get_latest_analysis", [room_id |-> room_id], 500,
                           Detail("validation error for SentimentAnalysis"))
           ELSE Reply("get_latest_analysis", [room_id |-> room_id], 200,
                      [room_id |-> room_id, analysis |-> Null])
    /\ UNCHANGED <<peer, memory, database, created, history>>

GetLatestAnalysis(rooms) == \E room_id \in rooms : get_latest_analysis(room_id)

----------------------------------------------------------------------------
(* GET /messages/{room_id} (main.py 628-654) *)

LimitMin == 1
LimitMax == 500

RoomMessages(room_id) == {m \in BagToSet(messages_collection) : m.room_id = room_id}

RECURSIVE CountAll(_)
CountAll(S) ==
    IF S = {} THEN 0
    ELSE LET m == CHOOSE x \in S : TRUE
         IN CopiesIn(m, messages_collection) + CountAll(S \ {m})

Occurrences(q, m) == Cardinality({i \in DOMAIN q : q[i] = m})

\* messages_collection.find({"room_id": room_id}, {"_id": 0})
\*     .sort("sent_ts", DESCENDING).limit(limit)
\* every answer the database may give: the `limit` documents of the room with
\* the greatest sent_ts, greatest first, documents of equal sent_ts in any order
FindRecent(room_id, limit) ==
    LET docs == RoomMessages(room_id)
        k == Min(limit, CountAll(docs))
    IN {q \in [1..k -> docs] :
           /\ \A i \in 1..(k - 1) : q[i].sent_ts >= q[i + 1].sent_ts
           /\ \A m \in docs : Occurrences(q, m) <= CopiesIn(m, messages_collection)
           /\ \A m \in docs : Occurrences(q, m) < CopiesIn(m, messages_collection)
                                  => m.sent_ts <= q[k].sent_ts}

\* list.sort(key=lambda x: x.get("sent_ts", 0)): ascending and stable
RECURSIVE InsertBySentTs(_, _)
InsertBySentTs(sorted, m) ==
    IF sorted = <<>> THEN <<m>>
    ELSE IF sorted[Len(sorted)].sent_ts <= m.sent_ts THEN Append(sorted, m)
    ELSE Append(InsertBySentTs(SubSeq(sorted, 1, Len(sorted) - 1), m), sorted[Len(sorted)])

RECURSIVE SortBySentTs(_)
SortBySentTs(s) ==
    IF s = <<>> THEN <<>>
    ELSE InsertBySentTs(SortBySentTs(SubSeq(s, 1, Len(s) - 1)), s[Len(s)])

\* The list the handler returns; mongo_messages is the query's answer, db_ok is
\* FALSE when the query raises PyMongoError (logged)
MessagesReturned(room_id, limit, db_ok, mongo_messages) ==
    LET messages == Buffer(room_id)
        merged ==
            IF Len(messages) < limit /\ db_ok
            THEN LET all_messages == SortBySentTs(messages \o mongo_messages)
                 IN IF Len(all_messages) > limit THEN LastN(all_messages, limit)
                    ELSE all_messages
            ELSE messages
    IN LastN(merged, limit)

get_messages(room_id, limit, db_ok, mongo_messages) ==
    /\ response' = Reply("get_messages", [room_id |-> room_id, limit |-> limit], 200,
                         [room_id |-> room_id,
                          messages |-> MessagesReturned(room_id, limit, db_ok,
                                                        mongo_messages)])
    /\ UNCHANGED <<peer, memory, database, created, history>>

GetMessages(rooms, limits, dbs) ==
    \E room_id \in rooms, limit \in limits, db_ok \in dbs :
        /\ LimitMin <= limit /\ limit <= LimitMax
        /\ \E mongo_messages \in (IF Len(Buffer(room_id)) < limit /\ db_ok
                                  THEN FindRecent(room_id, limit) ELSE {<<>>}) :
               get_messages(room_id, limit, db_ok, mongo_messages)

----------------------------------------------------------------------------
(* The "transcripts" collection *)

Matching(session_id) == {d \in sessions_collection : d.session_id = session_id}

\* find_one({"session_id": session_id}): the first matching document in natural
\* (insertion) order; only asked when one matches
FindOne(session_id) ==
    CHOOSE d \in Matching(session_id) : \A e \in Matching(session_id) : d._id <= e._id

\* A fresh ObjectId
NewId == 1 + Cardinality(sessions_collection)

\* The fields of session_update (main.py 684-692); user_email only if given
SessionUpdate(messages, full_analysis, user_email) ==
    [messages |-> messages, total_messages |-> Len(messages),
     latest_analysis |-> full_analysis, user_email |-> user_email]

\* update_one({"session_id": room_id}, {"$set": session_update})
UpdateOne(coll, session_id, update) ==
    LET d == FindOne(session_id)
    IN (coll \ {d}) \cup
       {[d EXCEPT !.messages = update.messages,
                  !.total_messages = update.total_messages,
                  !.latest_analysis = update.latest_analysis,
                  !.user_email = IF update.user_email # NoEmail THEN update.user_email
                                 ELSE @]}

\* insert_one({"session_id": room_id, **session_update}); a document without
\* the user_email key has user_email = NoEmail here
InsertOne(coll, session_id, update, id) ==
    coll \cup {[_id |-> id, session_id |-> session_id, messages |-> update.messages,
                total_messages |-> update.total_messages,
                latest_analysis |-> update.latest_analysis,
                user_email |-> update.user_email]}

\* faulty variant: every finalization inserts a new document
UpsertAlwaysInserts(coll, session_id, update) ==
    InsertOne(coll, session_id, update, NewId)

\* if existing_session: update_one(...) else: insert_one(...)  (main.py 694-706)
Upsert(coll, session_id, update) ==
    IF Matching(session_id) # {} THEN UpdateOne(coll, session_id, update)
    ELSE InsertOne(coll, session_id, update, NewId)

\* history: what the first finalization of a room returned
NoteFinalized(room_id, id, total) ==
    IF Has(finalized, room_id) THEN finalized
    ELSE Put(finalized, room_id, [mongo_id |-> id, total_messages |-> total])

----------------------------------------------------------------------------
(* POST /save-session (main.py 659-721) *)

\* faulty variant: the re-fetch answers with a count of zero
ExistingReplyNoTotal(req, existing) ==
    Reply("save_session", req, 200,
          [ok |-> TRUE, room_id |-> req.room_id, mongo_id |-> existing._id,
           total_messages |-> 0])

\* The answer for a room that is not in STORE but has a session document
\* (main.py 667-673)
ExistingReply(req, existing) ==
    Reply("save_session", req, 200,
          [ok |-> TRUE, room_id |-> req.room_id, mongo_id |-> existing._id,
           total_messages |-> existing.total_messages])

\* faulty variant: a finalized room is dropped from the Live Buffer
StoreAfterSaveDiscards(room_id) ==
    [r \in DOMAIN STORE \ {room_id} |-> STORE[r]]

\* The Live Buffer after a finalization: messages = STORE[room_id] is only read
\* (main.py 676-715)
StoreAfterSave(room_id) == STORE

\* db: "ok", or the call that raises PyMongoError: "read" (find_one) or "write"
\* (update_one / insert_one); the handler's `except Exception` answers 500.
save_session(room_id, user_email, db, reply) ==
    LET req == [room_id |-> room_id, user_email |-> user_email]
    IN IF db = "read"
       THEN /\ response' = Reply("save_session", req, 500, Detail("PyMongoError"))
            /\ UNCHANGED <<peer, memory, database, created, history>>
       ELSE IF ~Has(STORE, room_id)
       THEN IF Matching(room_id) # {}
            THEN /\ response' = ExistingReply(req, FindOne(room_id))
                 /\ finalized' = NoteFinalized(room_id, FindOne(room_id)._id,
                                             FindOne(room_id).total_messages)
                 /\ UNCHANGED <<peer, memory, database, created, firstOwner, accepted, rejected>>
            ELSE /\ response' = Reply("save_session", req, 404,
                                      Detail("Room not found in memory or database"))
                 /\ UNCHANGED <<peer, memory, database, created, history>>
       ELSE IF db = "write"
       THEN /\ response' = Reply("save_session", req, 500, Detail("PyMongoError"))
            /\ UNCHANGED <<peer, memory, database, created, history>>
       ELSE LET messages == STORE[room_id]
                full_analysis == analyze_full_conversation(messages, reply)
                update == SessionUpdate(messages, full_analysis, user_email)
                coll == Upsert(sessions_collection, room_id, update)
                mongo_id == IF Matching(room_id) # {} THEN FindOne(room_id)._id ELSE NewId
            IN /\ sessions_collection' = coll
               /\ response' = Reply("save_session", req, 200,
                                    [ok |-> TRUE, room_id |-> room_id,
                                     mongo_id |-> mongo_id,
                                     total_messages |-> Len(messages)])
               /\ finalized' = NoteFinalized(room_id, mongo_id, Len(messages))
               /\ STORE' = StoreAfterSave(room_id)
               /\ UNCHANGED <<peer, STORE_USERS, ROOM_TO_USER, ANALYSIS_STORE,
                              messages_collection, created, firstOwner, accepted,
                              rejected>>

Databases == {"ok", "read", "write"}

SaveSession(rooms, emails, dbs, replies) ==
    \E room_id \in rooms, user_email \in emails, db \in dbs :
        \E reply \in (IF Has(STORE, room_id) /\ db = "ok" THEN replies ELSE {NoReply}) :
            save_session(room_id, user_email, db, reply)

----------------------------------------------------------------------------
(* A second server process running the same code on the same database.  Its  *)
(* handlers block on each database call, and the first process runs in       *)
(* between.  Only what its save_session reads is kept of its memory: its own *)
(* STORE, filled by the ingestions routed to it.                             *)

\* process_transcription in the second process, for an agent turn the schema
\* and the blank check accept (main.py 562-573)
PeerIngest(payloads) ==
    \E payload \in payloads :
        /\ peer.pc = "idle"
        /\ ~SchemaRejects(payload) /\ ~IsBlank(payload) /\ payload.speaker = "assistant"
        /\ created < MaxMsgs
        /\ created' = created + 1
        /\ peer' = [peer EXCEPT !.STORE = AppendRecord(@, payload.room_id,
                                                       MakeRecord(payload))]
        /\ messages_collection' = messages_collection (+) SetToBag({MakeRecord(payload)})
        /\ UNCHANGED <<memory, sessions_collection, response, history>>

\* save_session in the second process, up to the answer of find_one: the room
\* is in its STORE (main.py 665, 676-678)
PeerSaveFind(rooms) ==
    \E room_id \in rooms :
        /\ peer.pc = "idle"
        /\ Has(peer.STORE, room_id)
        /\ peer' = [peer EXCEPT !.pc = "found", !.room_id = room_id,
                                !.existing_session =
                                    IF Matching(room_id) # {} THEN FindOne(room_id)._id
                                    ELSE 0]
        /\ UNCHANGED <<memory, database, response, created, history>>

\* save_session in the second process, from the analysis to the answer
\* (main.py 681-715); its LLM call fails
PeerSaveWrite ==
    /\ peer.pc = "found"
    /\ LET messages == peer.STORE[peer.room_id]
           update == SessionUpdate(messages, analyze_full_conversation(messages, NoReply),
                                   NoEmail)
           mongo_id == IF peer.existing_session # 0 THEN peer.existing_session ELSE NewId
       IN /\ sessions_collection' =
                 IF peer.existing_session # 0
                 THEN UpdateOne(sessions_collection, peer.room_id, update)
                 ELSE InsertOne(sessions_collection, peer.room_id, update, NewId)
          /\ peer' = PeerIdle(peer.STORE, Put(peer.returned, peer.room_id, mongo_id))
    /\ UNCHANGED <<memory, messages_collection, response, created, history>>

----------------------------------------------------------------------------
(* GET /conversations (main.py 732-783) *)

SessionsLimit == 50

\* The elements of a set in some order (dict and cursor order are not modelled)
RECURSIVE SetToSeq(_)
SetToSeq(S) ==
    IF S = {} THEN <<>>
    ELSE LET x == CHOOSE y \in S : TRUE IN <<x>> \o SetToSeq(S \ {x})

\* all_sessions[sess["room_id"]] = sess on an insertion-ordered dict: a key
\* already present keeps its place and takes the new value
DictAssign(entries, sess) ==
    IF \E i \in DOMAIN entries : entries[i].room_id = sess.room_id
    THEN [i \in DOMAIN entries |->
             IF entries[i].room_id = sess.room_id THEN sess ELSE entries[i]]
    ELSE Append(entries, sess)

RECURSIVE AssignAll(_, _)
AssignAll(entries, todo) ==
    IF todo = <<>> THEN entries
    ELSE AssignAll(DictAssign(entries, Head(todo)), Tail(todo))

\* The rooms of STORE whose recorded owner is the caller, with their counts
InMemorySessions(user_email) ==
    LET mine == {r \in DOMAIN STORE : Has(STORE_USERS, r) /\ STORE_USERS[r] = user_email}
        rooms == SetToSeq(mine)
    IN [i \in DOMAIN rooms |-> [room_id |-> rooms[i], count |-> Len(STORE[rooms[i]])]]

\* The saved sessions whose user_email is the caller (at most 50); none when
\* the query raises PyMongoError
MongoSessions(user_email, db_ok) ==
    LET saved == Take(SetToSeq({d \in sessions_collection : d.user_email = user_email}),
                      SessionsLimit)
    IN IF db_ok
       THEN [i \in DOMAIN saved |->
                [room_id |-> saved[i].session_id, count |-> saved[i].total_messages]]
       ELSE <<>>

\* for sess in in_memory + mongo_sessions: all_sessions[sess["room_id"]] = sess
MergeSessions(in_memory, mongo_sessions) == AssignAll(<<>>, in_memory \o mongo_sessions)

get_conversations(user_email, db_ok) ==
    /\ response' = Reply("get_conversations", [user_email |-> user_email], 200,
                         [sessions |-> MergeSessions(InMemorySessions(user_email),
                                                     MongoSessions(user_email, db_ok))])
    /\ UNCHANGED <<peer, memory, database, created, history>>

GetConversations(emails, dbs) ==
    \E user_email \in emails, db_ok \in dbs : get_conversations(user_email, db_ok)

----------------------------------------------------------------------------
(* GET /session/{session_id} (main.py 790-823) *)

\* find_one(..., {"_id": 0})
WithoutId(d) ==
    [session_id |-> d.session_id, messages |-> d.messages,
     total_messages |-> d.total_messages, latest_analysis |-> d.latest_analysis,
     user_email |-> d.user_email]

\* "user_email" in doc and doc["user_email"] != user_email
Denied(doc, user_email) == doc.user_email # NoEmail /\ doc.user_email # user_email

get_session(session_id, user_email, db_ok) ==
    LET req == [session_id |-> session_id, user_email |-> user_email]
    IN /\ response' =
              IF ~db_ok THEN Reply("get_session", req, 500, Detail("PyMongoError"))
              ELSE IF Matching(session_id) # {}
              THEN IF Denied(FindOne(session_id), user_email)
                   THEN Reply("get_session", req, 403,
                              Detail("Access denied: You don't own this session"))
                   ELSE Reply("get_session", req, 200, WithoutId(FindOne(session_id)))
              ELSE IF Has(STORE, session_id)
              THEN Reply("get_session", req, 200,
                         [session_id |-> session_id,
                          messages |-> STORE[session_id],
                          total_messages |-> Len(STORE[session_id]),
                          latest_analysis |-> IF Has(ANALYSIS_STORE, session_id)
                                              THEN ANALYSIS_STORE[session_id] ELSE Null,
                          user_email |-> user_email])
              ELSE Reply("get_session", req, 404, Detail("Session not found"))
       /\ UNCHANGED <<peer, memory, database, created, history>>

GetSession(rooms, emails, dbs) ==
    \E session_id \in rooms, user_email \in emails, db_ok \in dbs :
        get_session(session_id, user_email, db_ok)

----------------------------------------------------------------------------
(* GET /health (main.py 828-830) *)

HealthCheck ==
    /\ response' = Reply("health_check", [room_id |-> "none"], 200,
                         [status |-> "healthy", rooms |-> Cardinality(DOMAIN STORE)])
    /\ UNCHANGED <<peer, memory, database, created, history>>

----------------------------------------------------------------------------
(* Input domains *)

\* What the LLM call of analyze_with_groq can do
GroqReplies ==
    { [err |-> TRUE],
      [err |-> FALSE, content |-> <<"sorry,", " ", "no">>],
      [err |-> FALSE, content |-> <<Fence, "json", "<nl>", "J_good", "<nl>", Fence>>],
      [err |-> FALSE, content |-> <<"J_odd">>],
      [err |-> FALSE, content |-> <<"J_badkp", "<nl>">>],
      [err |-> FALSE, content |-> <<"J_numsent">>] }

\* What the LLM call of analyze_full_conversation can do
FullReplies ==
    { [err |-> TRUE],
      [err |-> FALSE, content |-> <<"sorry,", " ", "no">>],
      [err |-> FALSE, content |-> <<Fence, "<nl>", "J_full", "<nl>", Fence>>],
      [err |-> FALSE, content |-> <<"J_nokp">>],
      [err |-> FALSE, content |-> <<"J_nullkp">>],
      [err |-> FALSE, content |-> <<"J_array">>],
      [err |-> FALSE, content |-> <<"J_badconf">>],
      [err |-> FALSE, content |-> <<"J_nan">>],
      [err |-> FALSE, content |-> <<"J_strconf">>] }

\* The bodies POST /process-transcription is called with (TranscriptIn)
Payloads(texts, speakers, timestamps, rooms, emails) ==
    [text : texts, speaker : speakers, timestamp : timestamps, room_id : rooms,
     user_email : emails]

AnyEmail == Emails \cup {NoEmail}

\* Conversations handed to analyze_full_conversation: up to MaxConv messages,
\* the customer's short or longer than every truncation length
MaxConv == 6
LongText == [i \in 1..(DecodeErrorTextLen + 1) |-> "a"]
ConvMessages ==
    {[text |-> text, speaker |-> "user", sent_ts |-> 1, room_id |-> "r1"] :
         text \in {<<"a">>, LongText}}
    \cup {[text |-> <<"b">>, speaker |-> "assistant", sent_ts |-> 1, room_id |-> "r1"]}
Conversations == UNION {[1..n -> ConvMessages] : n \in 0..MaxConv}
NonBlank == { <<" ", "a", "<nl>">> }
Limits == 1..(MaxMsgs + 1)

----------------------------------------------------------------------------
(* Specifications.  Next is the whole program over the full input domains;  *)
(* the others run the same handlers in a narrower environment.              *)

Next ==
    \/ Restart
    \/ GetToken(Rooms, AnyEmail)
    \/ ProcessTranscription(Payloads(Texts, Speakers, Timestamps, Rooms, AnyEmail),
                            BOOLEAN, GroqReplies)
    \/ GetLatestAnalysis(Rooms)
    \/ GetMessages(Rooms, Limits, BOOLEAN)
    \/ SaveSession(Rooms, AnyEmail, Databases, FullReplies)
    \/ GetConversations(Emails, BOOLEAN)
    \/ GetSession(Rooms, Emails, BOOLEAN)
    \/ HealthCheck

Spec == Init /\ [][Next]_vars

\* Ingestion alone: anonymous producers, both rooms, both speakers, every LLM
\* behaviour, the write-through succeeding or failing.
NextIngest ==
    ProcessTranscription(Payloads(Texts, Speakers, {1}, Rooms, {NoEmail}),
                         BOOLEAN, GroqReplies)

SpecIngest == Init /\ [][NextIngest]_vars

\* Per-utterance analysis: both speakers, every LLM behaviour, the stored
\* analysis read back, restarts.
NextAnalysis ==
    \/ Restart
    \/ ProcessTranscription(Payloads(NonBlank, Speakers, {1}, Rooms, {NoEmail}),
                            {TRUE}, GroqReplies)
    \/ GetLatestAnalysis(Rooms)

SpecAnalysis == Init /\ [][NextAnalysis]_vars

\* Whole-conversation analysis on its own: one application, to any conversation
\* of the domain with any LLM behaviour.
NextFull == response = NoRequest /\ AnalyzeFullConversation(Conversations, FullReplies)

SpecFull == Init /\ [][NextFull]_vars

\* Ownership at room creation and ingestion: agent turns only, with and
\* without a user identity, blank and non-blank.
NextOwner ==
    \/ GetToken(Rooms, AnyEmail)
    \/ ProcessTranscription(Payloads(Texts, {"assistant"}, {1}, Rooms, AnyEmail),
                            {TRUE}, {NoReply})

SpecOwner == Init /\ [][NextOwner]_vars

\* Finalization and listing: agent turns with and without a user identity,
\* the database answering or failing, restarts.
NextFinalize ==
    \/ Restart
    \/ ProcessTranscription(Payloads(NonBlank, {"assistant"}, {1}, Rooms, AnyEmail),
                            {TRUE}, {NoReply})
    \/ SaveSession(Rooms, AnyEmail, Databases, {[err |-> TRUE]})
    \/ GetConversations(Emails, BOOLEAN)

SpecFinalize == Init /\ [][NextFinalize]_vars

\* Finalizing rooms that are, or are no longer, in the Live Buffer: anonymous
\* agent turns, finalization with and without identity, the database answering
\* or failing, restarts.
NextRefetch ==
    \/ Restart
    \/ ProcessTranscription(Payloads(NonBlank, {"assistant"}, {1}, Rooms, {NoEmail}),
                            {TRUE}, {NoReply})
    \/ SaveSession(Rooms, AnyEmail, Databases, {[err |-> TRUE]})

SpecRefetch == Init /\ [][NextRefetch]_vars

\* Fetching a session: agent turns with and without a user identity,
\* finalization, the listing and the fetch by either user, the database
\* answering or failing, restarts.
NextFetch ==
    \/ Restart
    \/ ProcessTranscription(Payloads(NonBlank, {"assistant"}, {1}, Rooms, AnyEmail),
                            {TRUE}, {NoReply})
    \/ SaveSession(Rooms, AnyEmail, Databases, {[err |-> TRUE]})
    \/ GetConversations(Emails, BOOLEAN)
    \/ GetSession(Rooms, Emails, BOOLEAN)

SpecFetch == Init /\ [][NextFetch]_vars

\* Two server processes finalizing: agent turns routed to either process, the
\* first process finalizing in one step, the second in two.
NextRace ==
    \/ ProcessTranscription(Payloads(NonBlank, {"assistant"}, {1}, Rooms, {NoEmail}),
                            {TRUE}, {NoReply})
    \/ SaveSession(Rooms, {NoEmail}, {"ok"}, {[err |-> TRUE]})
    \/ PeerIngest(Payloads(NonBlank, {"assistant"}, {1}, Rooms, {NoEmail}))
    \/ PeerSaveFind(Rooms)
    \/ PeerSaveWrite

SpecRace == Init /\ [][NextRace]_vars

\* Every handler that only reads memory, next to ingestion by both speakers for
\* one user; the database answering or failing; no restart.
NextFrame ==
    \/ ProcessTranscription(Payloads(NonBlank, Speakers, {1}, Rooms, {"u1"}),
                            {TRUE}, {NoReply})
    \/ SaveSession(Rooms, {"u1"}, {"ok", "write"}, {[err |-> TRUE]})
    \/ GetConversations({"u1"}, BOOLEAN)
    \/ GetSession(Rooms, {"u1"}, BOOLEAN)
    \/ GetMessages(Rooms, {MaxMsgs}, BOOLEAN)
    \/ GetLatestAnalysis(Rooms)
    \/ HealthCheck

SpecFrame == Init /\ [][NextFrame]_vars

\* Message fetch: producer timestamps in any order, the write-through and the
\* query succeeding or failing.
NextMessages ==
    \/ ProcessTranscription(Payloads(NonBlank, {"assistant"}, Timestamps, Rooms,
                                     {NoEmail}),
                            BOOLEAN, {NoReply})
    \/ GetMessages(Rooms, Limits, BOOLEAN)

SpecMessages == Init /\ [][NextMessages]_vars

----------------------------------------------------------------------------
(* Claims about ingestion, checked under SpecIngest *)

IsIngest == response.op = "process_transcription"
IsBlankText(text) == Strip(text) = <<>>

\* C1: for every room R whose ingestions of non-blank text were all answered
\* 200 (requests for other rooms, and blank or invalid requests, interleaved in
\* any way), the Live Buffer entry of R is exactly the sequence of those
\* messages in the order they were handled, and the N-th of them was answered
\* with count_in_room = N.
C1_CountAndOrder ==
    /\ \A room \in Rooms : room \notin rejected => Buffer(room) = accepted[room]
    /\ (IsIngest /\ response.status = 200 /\ response.req.room_id \notin rejected)
           => /\ response.body.count_in_room = Len(accepted[response.req.room_id])
              /\ accepted[response.req.room_id][response.body.count_in_room]
                     = MakeRecord(response.req)

\* C1 witness: the second message of r1 has just been counted, r2 holds a
\* message too, and the two messages of r1 differ.
C1_Witness ==
    /\ IsIngest /\ response.status = 200 /\ response.req.room_id = "r1"
    /\ "r1" \notin rejected
    /\ response.body.count_in_room = 2
    /\ Len(accepted["r2"]) = 1
    /\ STORE["r1"][1].speaker # STORE["r1"][2].speaker

\* C4 (as claimed): a request whose text is empty after trimming, and that passed
\* the schema's min_length=1, is answered with a 4xx status (422), never 5xx.
C4_BlankIsValidationError ==
    (IsIngest /\ Len(response.req.text) >= 1 /\ IsBlankText(response.req.text))
        => (response.status >= 400 /\ response.status < 500)

\* C5: a step that answers an ingestion whose text is empty or whitespace-only
\* leaves the Live Buffer as it was: no entry is created, none is extended.
C5_BlankLeavesBuffer ==
    [][(response'.op = "process_transcription" /\ IsBlankText(response'.req.text))
          => STORE' = STORE]_vars

\* C5 witness: a whitespace-only request for r2, which has no entry, was answered
\* while r1 has one.
C5_Witness ==
    /\ IsIngest /\ response.req.text = <<" ">> /\ response.req.room_id = "r2"
    /\ ~Has(STORE, "r2") /\ Has(STORE, "r1")

Sentiments == { <<"positive">>, <<"neutral">>, <<"negative">> }

\* C6 (as claimed): every customer-speaker ingestion of non-blank text is
\* answered 200 with an analysis whose sentiment is positive, neutral or
\* negative, whatever the LLM call did.
C6_CustomerAlwaysAnalysed ==
    (IsIngest /\ response.req.speaker = "user" /\ ~IsBlankText(response.req.text))
        => /\ response.status = 200
           /\ response.body.analysis # Null
           /\ response.body.analysis.sentiment \in Sentiments

\* C12 (as claimed): an ingestion of non-blank text whose write to the messages
\* collection fails is answered 200, its message is appended to the Live
\* Buffer and counted in count_in_room, and for a customer turn the analysis
\* is returned.
C12_WriteFailureStillSucceeds ==
    [][\A payload \in Payloads(Texts, Speakers, {1}, Rooms, {NoEmail}),
         reply \in GroqReplies :
          (/\ ~SchemaRejects(payload) /\ ~IsBlank(payload)
           /\ process_transcription(payload, FALSE, reply))
              => /\ response'.status = 200
                 /\ STORE' = AppendRecord(STORE, payload.room_id, MakeRecord(payload))
                 /\ response'.body.count_in_room = Len(STORE'[payload.room_id])
                 /\ payload.speaker = "user" => response'.body.analysis # Null]_vars

\* C19 (as claimed): a step that answers an ingestion with an error status (4xx
\* or 5xx) leaves STORE, STORE_USERS, ROOM_TO_USER and ANALYSIS_STORE as they
\* were.
C19_FailedIngestionLeavesMemory ==
    [][(response'.op = "process_transcription" /\ response'.status >= 400)
          => UNCHANGED memory]_vars

----------------------------------------------------------------------------
(* Claims about the per-utterance analysis, checked under SpecAnalysis *)

\* A room has a stored analysis exactly when its buffer holds a customer message
C13_Present ==
    \A room \in Rooms :
        Has(ANALYSIS_STORE, room)
            <=> \E i \in DOMAIN Buffer(room) : Buffer(room)[i].speaker = "user"

\* What each step does to the stored analysis
C13_Step ==
    /\ \A payload \in Payloads(NonBlank, Speakers, {1}, Rooms, {NoEmail}),
          reply \in GroqReplies :
           process_transcription(payload, TRUE, reply)
               => LET room == payload.room_id
                  IN IF payload.speaker = "user"
                     THEN /\ STORE'[room][Len(STORE'[room])] = MakeRecord(payload)
                          /\ ANALYSIS_STORE'[room] = analyze_with_groq(reply)
                          /\ \A other \in DOMAIN ANALYSIS_STORE \ {room} :
                                 ANALYSIS_STORE'[other] = ANALYSIS_STORE[other]
                          /\ response'.status = 200
                                 => response'.body.analysis = ANALYSIS_STORE'[room]
                     ELSE /\ ANALYSIS_STORE' = ANALYSIS_STORE
                          /\ response'.status = 200
                          /\ response'.body.analysis = Null
                          /\ response'.body.latest_user_message = Null
    /\ response'.op = "get_latest_analysis" => ANALYSIS_STORE' = ANALYSIS_STORE

\* C13: in every reachable state a room has a stored analysis exactly when a
\* customer message of the room is in the Live Buffer; a customer ingestion
\* stores the analysis computed in that same request, for the message it has
\* just appended, and touches no other room's; an agent ingestion is answered
\* without analysis and without latest_user_message and leaves the stored
\* analyses as they were, and so does reading the analysis back.
C13_AnalysisIsOfLatestCustomerMessage == []C13_Present /\ [][C13_Step]_vars

\* C13 witness: r1 holds a customer message analysed as positive followed by an
\* agent message just ingested; r2 holds only an agent message and no analysis.
C13_Witness ==
    /\ IsIngest /\ response.status = 200 /\ response.req.room_id = "r1"
    /\ response.req.speaker = "assistant"
    /\ Len(Buffer("r1")) = 2 /\ Buffer("r1")[1].speaker = "user"
    /\ Has(ANALYSIS_STORE, "r1") /\ ANALYSIS_STORE["r1"].sentiment = <<"positive">>
    /\ Len(Buffer("r2")) = 1 /\ ~Has(ANALYSIS_STORE, "r2")

----------------------------------------------------------------------------
(* Claims about the whole-conversation analysis, checked under SpecFull *)

IsFullAnalysis == response.op = "analyze_full_conversation"

\* The LLM's answer as analyze_full_conversation reads it
ParsedReply(reply) == JsonLoads(Unfence(Strip(reply.content)))

\* key_points + customer_interests + customer_concerns of a parsed answer
AllKeyPoints(v) ==
    Items(Get(v, "key_points", List(<<>>)))
        \o Items(Get(v, "customer_interests", List(<<>>)))
        \o Items(Get(v, "customer_concerns", List(<<>>)))

\* The LLM answered with a JSON object that the function reads without raising
\* and that has at least one key point
SuccessPath(messages, reply) ==
    /\ messages # <<>> /\ ~reply.err
    /\ ParsedReply(reply).ok /\ ParsedReply(reply).v.t = "obj"
    /\ LET v == ParsedReply(reply).v
       IN /\ Iterable(Get(v, "key_points", List(<<>>)))
          /\ Iterable(Get(v, "customer_interests", List(<<>>)))
          /\ Iterable(Get(v, "customer_concerns", List(<<>>)))
          /\ Get(v, "sentiment", Str(<<"neutral">>)).t = "str"
          /\ FloatOk(Get(v, "confidence", Num(DefaultFullConfidence)))
          /\ AllKeyPoints(v) # <<>>

\* C14 (as claimed): every result of analyze_full_conversation has confidence
\* >= 0.5 and between 1 and 7 key points, and on the success path the key
\* points are the first 7 of key_points + customer_interests +
\* customer_concerns, in that order.
C14_FullAnalysisBounds ==
    IsFullAnalysis
        => /\ response.body.confidence >= ConfidenceFloor
           /\ Len(response.body.key_points.l) >= 1
           /\ Len(response.body.key_points.l) <= KeyPointsCap
           /\ SuccessPath(response.req.messages, response.req.reply)
                  => response.body.key_points.l
                         = Take(AllKeyPoints(ParsedReply(response.req.reply).v),
                                KeyPointsCap)

\* The texts of the first five customer messages, truncated
FirstCustomerTexts(messages) ==
    LET um == UserMessages(messages)
    IN [i \in 1..Min(DecodeErrorTexts, Len(um)) |->
           Str(Take(um[i].text, DecodeErrorTextLen))]

\* C15 (as claimed): when the LLM call fails or its answer is not JSON, the key
\* points of the result are the truncated texts of the first five customer
\* messages of the conversation.
C15_FallbackFromCustomerTexts ==
    (/\ IsFullAnalysis
     /\ UserMessages(response.req.messages) # <<>>
     /\ (response.req.reply.err \/ ~ParsedReply(response.req.reply).ok))
        => response.body.key_points.l = FirstCustomerTexts(response.req.messages)

----------------------------------------------------------------------------
(* Claims about ownership, checked under SpecOwner *)

\* C2 (as claimed): the owner recorded for a room, which ingestion keeps and
\* list-sessions filters by, is the first user the room was associated with,
\* by get_token or by an ingestion carrying a user identity, whichever came
\* first; nothing later changes it.
C2_FirstOwnerKept ==
    \A room \in DOMAIN STORE_USERS :
        Has(firstOwner, room) /\ STORE_USERS[room] = firstOwner[room]

----------------------------------------------------------------------------
(* Claims about fetching a session, checked under SpecFetch *)

IsFetch == response.op = "get_session"
IsSave == response.op = "save_session"
IsList == response.op = "get_conversations"

\* C3 (as claimed): when a room has a recorded owner and exists in the Live
\* Buffer or the Persistent Store, a fetch of its session by another
\* authenticated user that the database answers is refused with 403.
C3_NonOwnerForbidden ==
    (/\ IsFetch
     /\ response.status # 500
     /\ Has(STORE_USERS, response.req.session_id)
     /\ STORE_USERS[response.req.session_id] # response.req.user_email)
        => response.status = 403

\* C17 (as claimed): when a database call raises PyMongoError during
\* save_session or get_session of a room that is in the Live Buffer, the
\* request is still answered 200.
C17_StoreFailureNotSurfaced ==
    [][\A room \in Rooms :
          (/\ Has(STORE, room)
           /\ \/ \E email \in AnyEmail, db \in {"read", "write"} :
                     save_session(room, email, db, NoReply)
              \/ \E email \in Emails : get_session(room, email, FALSE))
              => response'.status = 200]_vars

\* The rooms get_conversations lists for a caller in the current state
ListedFor(user_email) ==
    LET sessions == MergeSessions(InMemorySessions(user_email),
                                  MongoSessions(user_email, TRUE))
    IN {sessions[i].room_id : i \in DOMAIN sessions}

\* get_session answers the caller 403 in the current state
DeniedTo(user_email, session_id) ==
    Matching(session_id) # {} /\ Denied(FindOne(session_id), user_email)

\* C20 (as claimed): in every reachable state, no room that get_conversations
\* lists for a caller is refused to that caller by get_session with 403.
C20_ListedIsFetchable ==
    \A user_email \in Emails :
        \A room \in ListedFor(user_email) : ~DeniedTo(user_email, room)

----------------------------------------------------------------------------
(* Claims about finalization and listing, checked under SpecFinalize *)

\* C7: every successful finalization of a room returns the identifier its first
\* finalization returned and leaves exactly one document for the room, with
\* that identifier; when the room is in the Live Buffer, the total_messages
\* returned and stored is the length of STORE[room] at that moment, and the
\* stored messages are that list.
C7_FinalizeIsUpsert ==
    (IsSave /\ response.status = 200)
        => LET room == response.req.room_id
           IN /\ response.body.mongo_id = finalized[room].mongo_id
              /\ Cardinality(Matching(room)) = 1
              /\ FindOne(room)._id = response.body.mongo_id
              /\ Has(STORE, room)
                     => /\ response.body.total_messages = Len(STORE[room])
                        /\ FindOne(room).total_messages = Len(STORE[room])
                        /\ FindOne(room).messages = STORE[room]

\* C7 witness: r1 was finalized with one message, and has now been finalized
\* again with two.
C7_Witness ==
    /\ IsSave /\ response.status = 200 /\ response.req.room_id = "r1"
    /\ finalized["r1"].total_messages = 1
    /\ response.body.total_messages = 2

\* C8 (as claimed): after a successful finalization of a room whose owner is
\* recorded, the room's session document carries that owner, whether or not the
\* request named a user.
C8_FinalizedOwnerMarked ==
    (IsSave /\ response.status = 200 /\ Has(STORE_USERS, response.req.room_id))
        => FindOne(response.req.room_id).user_email
               = STORE_USERS[response.req.room_id]

\* C9 (as claimed): in the answer of list-sessions no room id appears twice, and
\* a room that is live and owned by the caller is listed with the Live
\* Buffer's current message count.
C9_LiveCountWins ==
    IsList
        => LET sessions == response.body.sessions
               caller == response.req.user_email
           IN /\ \A i, j \in DOMAIN sessions :
                     sessions[i].room_id = sessions[j].room_id => i = j
              /\ \A i \in DOMAIN sessions :
                     (/\ Has(STORE, sessions[i].room_id)
                      /\ Has(STORE_USERS, sessions[i].room_id)
                      /\ STORE_USERS[sessions[i].room_id] = caller)
                         => sessions[i].count = Len(STORE[sessions[i].room_id])

----------------------------------------------------------------------------
(* Claims about concurrent finalization, checked under SpecRace *)

\* C16 (as claimed): however two finalizations of a room interleave, the
\* sessions collection holds at most one document per session id, and the
\* identifier the second process was answered with is the one the first
\* finalization of the room in the first process returned.
C16_OneRecordPerSession ==
    \A room \in Rooms :
        /\ Cardinality(Matching(room)) <= 1
        /\ (Has(peer.returned, room) /\ Has(finalized, room))
               => peer.returned[room] = finalized[room].mongo_id

----------------------------------------------------------------------------
(* Claims about what finalization and the reads leave alone, checked under *)
(* SpecFrame                                                               *)

ReadOrFinalize ==
    {"save_session", "get_conversations", "get_session", "get_messages",
     "get_latest_analysis", "health_check"}

\* C18: a step of save_session, get_conversations, get_session, get_messages,
\* get_latest_analysis or health_check leaves STORE, STORE_USERS and
\* ANALYSIS_STORE as they were, and no step of any handler makes a room's
\* message count smaller.
C18_ReadsLeaveMemory ==
    [][/\ response'.op \in ReadOrFinalize
              => UNCHANGED <<STORE, STORE_USERS, ANALYSIS_STORE>>
       /\ \A room \in DOMAIN STORE :
              Has(STORE', room) /\ Len(STORE'[room]) >= Len(STORE[room])]_vars

\* C18 witness: r1, with two messages, an owner and a stored analysis, has just
\* been finalized and is still in the Live Buffer.
C18_Witness ==
    /\ IsSave /\ response.status = 200 /\ response.req.room_id = "r1"
    /\ Len(Buffer("r1")) = 2 /\ response.body.total_messages = 2
    /\ Has(STORE_USERS, "r1") /\ Has(ANALYSIS_STORE, "r1")

----------------------------------------------------------------------------
(* Claims about finalizing a room without a Live Buffer entry, checked under *)
(* SpecRefetch                                                               *)

\* C11: when the database answers, finalizing a room that has no Live Buffer
\* entry changes nothing in memory or in the database; it answers 200 with the
\* identifier and total_messages of the room's session document if there is
\* one, and 404 if there is none.
C11_RefetchOrNotFound ==
    [][\A room \in Rooms, email \in AnyEmail :
          (~Has(STORE, room) /\ save_session(room, email, "ok", NoReply))
              => /\ UNCHANGED <<memory, database>>
                 /\ IF Matching(room) # {}
                    THEN /\ response'.status = 200
                         /\ response'.body.mongo_id = FindOne(room)._id
                         /\ response'.body.total_messages = FindOne(room).total_messages
                    ELSE response'.status = 404]_vars

\* C11 witness: after a restart r1, finalized earlier with one message, is
\* finalized again while it has no Live Buffer entry.
C11_Witness ==
    /\ IsSave /\ response.status = 200 /\ response.req.room_id = "r1"
    /\ ~Has(STORE, "r1")
    /\ response.body.total_messages = 1

----------------------------------------------------------------------------
(* Claims about the message fetch, checked under SpecMessages *)

\* Every message of the room, in either tier
AllMessages(room_id) ==
    {Buffer(room_id)[i] : i \in DOMAIN Buffer(room_id)} \cup RoomMessages(room_id)

\* C10 (as claimed): get_messages returns at most `limit` messages, in ascending
\* sent_ts order, and no message of the room that it leaves out has a greater
\* sent_ts than one it returns.
C10_MostRecentSorted ==
    response.op = "get_messages"
        => LET msgs == response.body.messages
           IN /\ Len(msgs) <= response.req.limit
              /\ \A i \in 1..(Len(msgs) - 1) : msgs[i].sent_ts <= msgs[i + 1].sent_ts
              /\ \A m \in AllMessages(response.req.room_id) :
                     (\A i \in DOMAIN msgs : msgs[i] # m)
                         => \A i \in DOMAIN msgs : m.sent_ts <= msgs[i].sent_ts

====
